---------------------------- MODULE Spec2Model ----------------------------
(***************************************************************************)
(* CustomPlayer of game_agent.py: get_move (fixed-depth search and         *)
(* iterative deepening), minimax, alphabeta and the Timeout signal that    *)
(* the timer check raises.                                                 *)
(*                                                                         *)
(* The Board (isolation.Board) is an external collaborator.  It is         *)
(* modelled as a finite game tree: a position is a node, the legal moves   *)
(* of the active player are the node's children in enumeration order, and  *)
(* a position without children is lost for the player to move.             *)
(***************************************************************************)
EXTENDS Integers, Sequences, FiniteSets, TLC

(***************************************************************************)
(* Bounds of the model.                                                    *)
(***************************************************************************)
\* Largest number of positions of a game given to get_move.
MaxNodes == 5
\* Largest number of positions of a game given directly to minimax/alphabeta.
MaxSearchNodes == 7
\* Largest fixed search depth.
MaxDepth == 3
\* Largest number of time samples that stay at or above the threshold.
MaxBudget == 12

(***************************************************************************)
(* Values of the program.                                                  *)
(***************************************************************************)
\* float("inf") and float("-inf"): larger (smaller) than every finite score.
PosInf == 1000
NegInf == -PosInf
\* The finite values the heuristic takes on non-terminal positions.
Heuristics == {3, 5}
\* CustomPlayer.__init__: timeout=10.
TIMER_THRESHOLD == 10
\* The move variable before any search has assigned it (Python's None).
None == <<>>
\* The (-1, -1) of "no legal moves".
NullMove == <<-1, -1>>
\* The two players, from the point of view of the CustomPlayer instance.
Self == "self"
Opponent == "opponent"
Methods == {"minimax", "alphabeta", "negamax"}

Max(a, b) == IF a >= b THEN a ELSE b
Min(a, b) == IF a <= b THEN a ELSE b

(***************************************************************************)
(* The game trees.  A node is [h, kids]: h is the heuristic value of the   *)
(* position (read only at non-terminal positions), kids the successor      *)
(* positions in the Board's enumeration order.                             *)
(***************************************************************************)
Terminal == [h |-> 0, kids |-> <<>>]

RECURSIVE TreesOfSize(_)
RECURSIVE ForestsOfSize(_)
\* All trees with exactly n nodes.
TreesOfSize(n) ==
    IF n = 1 THEN {Terminal}
    ELSE {[h |-> v, kids |-> f] : v \in Heuristics, f \in ForestsOfSize(n - 1)}
\* All sequences of trees with n nodes in total.
ForestsOfSize(n) ==
    IF n = 0 THEN {<<>>}
    ELSE UNION {{<<t>> \o f : t \in TreesOfSize(j), f \in ForestsOfSize(n - j)} : j \in 1..n}

TreesUpTo(n) == UNION {TreesOfSize(k) : k \in 1..n}

RECURSIVE NodeCount(_)
RECURSIVE ForestCount(_)
NodeCount(t) == 1 + ForestCount(t.kids)
ForestCount(f) == IF f = <<>> THEN 0 ELSE NodeCount(Head(f)) + ForestCount(Tail(f))

(***************************************************************************)
(* Board: a position is [node, active].                                    *)
(***************************************************************************)
get_opponent(player) == IF player = Self THEN Opponent ELSE Self

\* The k-th legal move, as a (row, col) pair.
Cell(k) == <<0, k>>

get_legal_moves(game) == [k \in 1..Len(game.node.kids) |-> Cell(k)]

forecast_move(game, m) ==
    [node |-> game.node.kids[m[2]], active |-> get_opponent(game.active)]

is_loser(game, player) == player = game.active /\ game.node.kids = <<>>

is_winner(game, player) == player # game.active /\ game.node.kids = <<>>

utility(game, player) ==
    IF is_loser(game, player) THEN NegInf
    ELSE IF is_winner(game, player) THEN PosInf
    ELSE 0

(***************************************************************************)
(* Evaluator: custom_score.  The arithmetic of heuristic_three depends on  *)
(* the board geometry; its value at a position is the label h, a finite    *)
(* number (the -inf that heuristic_two can contribute is not among the     *)
(* labels; terminal positions score -inf / +inf through is_loser and       *)
(* is_winner).                                                             *)
(***************************************************************************)
heuristic_three(game, player) == game.node.h

custom_score(game, player) ==
    IF is_loser(game, player) THEN NegInf
    ELSE IF is_winner(game, player) THEN PosInf
    ELSE heuristic_three(game, player)

(***************************************************************************)
(* The machine state a search threads through its calls: the time source   *)
(* (clock: what time_left() reports next; every sample takes one tick),    *)
(* the number of minimax/alphabeta calls made so far, and the trace of     *)
(* the queries made to the time source, the Board and the Evaluator.       *)
(***************************************************************************)
Event(ev, call, val) == [ev |-> ev, call |-> call, val |-> val]

Emit(st, ev, call, val) == [st EXCEPT !.trace = Append(@, Event(ev, call, val))]

\* self.time_left(): reports the clock, which then advances.
TimeLeft(st, call) ==
    [Emit(st, "time_left", call, st.clock) EXCEPT !.clock = st.clock - 1]

NewCall(st) == [st EXCEPT !.calls = @ + 1]

Completed(score, m, st) == [raised |-> FALSE, score |-> score, move |-> m, st |-> st]
\* raise Timeout(): no score and no move.
Raised(st) == [raised |-> TRUE, score |-> 0, move |-> None, st |-> st]

(***************************************************************************)
(* The comparisons of a layer.                                             *)
(***************************************************************************)
\* A slip: an equal score replaces the best move too.
BetterOrEqual(maximizing_player, score, best_score) ==
    IF maximizing_player THEN score >= best_score ELSE score <= best_score

\* if score > best_score (maximizing) / if score < best_score (minimizing).
Better(maximizing_player, score, best_score) ==
    IF maximizing_player THEN score > best_score ELSE score < best_score

\* A slip: the cutoff tests the layer's own bound instead of the other one.
CutoffOwnBound(maximizing_player, best_score, alpha, beta) ==
    IF maximizing_player THEN best_score >= alpha ELSE best_score <= beta

\* if best_score >= beta (maximizing) / if best_score <= alpha (minimizing).
Cutoff(maximizing_player, best_score, alpha, beta) ==
    IF maximizing_player THEN best_score >= beta ELSE best_score <= alpha

(***************************************************************************)
(* CustomPlayer.minimax                                                    *)
(***************************************************************************)
RECURSIVE minimax(_, _, _, _)
RECURSIVE minimax_loop(_, _, _, _, _, _, _, _, _)

\* A slip: the layer swallows the Timeout of a move's search, skips the move
\* and goes on with the next one.
minimax_loop_resume(game, depth, maximizing_player, moves, k, best_score, best_move, call, st) ==
    IF k > Len(moves) THEN Completed(best_score, best_move, st)
    ELSE
        LET m == moves[k]
            r == minimax(forecast_move(game, m), depth - 1, ~maximizing_player,
                         Emit(st, "forecast_move", call, k))
            better == ~r.raised /\ Better(maximizing_player, r.score, best_score)
        IN  minimax_loop(game, depth, maximizing_player, moves, k + 1,
                         IF better THEN r.score ELSE best_score,
                         IF better THEN m ELSE best_move,
                         call, r.st)

\* The for loop of a layer, from the k-th legal move on.
minimax_loop(game, depth, maximizing_player, moves, k, best_score, best_move, call, st) ==
    IF k > Len(moves) THEN Completed(best_score, best_move, st)
    ELSE
        LET m == moves[k]
            r == minimax(forecast_move(game, m), depth - 1, ~maximizing_player,
                         Emit(st, "forecast_move", call, k))
            better == Better(maximizing_player, r.score, best_score)
        IN  IF r.raised THEN r
            ELSE minimax_loop(game, depth, maximizing_player, moves, k + 1,
                              IF better THEN r.score ELSE best_score,
                              IF better THEN m ELSE best_move,
                              call, r.st)

minimax(game, depth, maximizing_player, st0) ==
    LET call == st0.calls + 1
        st1 == TimeLeft(NewCall(st0), call)
    IN  IF st0.clock < TIMER_THRESHOLD THEN Raised(Emit(st1, "Timeout", call, 0))
        ELSE
            LET st2 == Emit(st1, "get_legal_moves", call, 0)
                legal_moves_ == get_legal_moves(game)
            IN  IF depth = 0
                THEN Completed(custom_score(game, Self), NullMove, Emit(st2, "score", call, 0))
                ELSE IF legal_moves_ = <<>>
                THEN Completed(utility(game, Self), NullMove, Emit(st2, "utility", call, 0))
                ELSE minimax_loop(game, depth, maximizing_player, legal_moves_, 1,
                                  IF maximizing_player THEN NegInf ELSE PosInf,
                                  None, call, st2)

(***************************************************************************)
(* CustomPlayer.alphabeta                                                  *)
(***************************************************************************)
RECURSIVE alphabeta(_, _, _, _, _, _)
RECURSIVE alphabeta_loop(_, _, _, _, _, _, _, _, _, _, _)

alphabeta_loop(game, depth, alpha, beta, maximizing_player, moves, k, best_score, best_move, call, st) ==
    IF k > Len(moves) THEN Completed(best_score, best_move, st)
    ELSE
        LET m == moves[k]
            r == alphabeta(forecast_move(game, m), depth - 1, alpha, beta,
                           ~maximizing_player, Emit(st, "forecast_move", call, k))
            better == Better(maximizing_player, r.score, best_score)
            score_ == IF better THEN r.score ELSE best_score
            move_ == IF better THEN m ELSE best_move
        IN  IF r.raised THEN r
            ELSE IF Cutoff(maximizing_player, score_, alpha, beta) THEN Completed(score_, move_, r.st)
            ELSE alphabeta_loop(game, depth,
                                IF maximizing_player THEN Max(alpha, score_) ELSE alpha,
                                IF maximizing_player THEN beta ELSE Min(beta, score_),
                                maximizing_player, moves, k + 1, score_, move_, call, r.st)

alphabeta(game, depth, alpha, beta, maximizing_player, st0) ==
    LET call == st0.calls + 1
        st1 == TimeLeft(NewCall(st0), call)
    IN  IF st0.clock < TIMER_THRESHOLD THEN Raised(Emit(st1, "Timeout", call, 0))
        ELSE IF depth = 0
        THEN Completed(custom_score(game, Self), NullMove, Emit(st1, "score", call, 0))
        ELSE
            LET st2 == Emit(st1, "get_legal_moves", call, 0)
                legal_moves_ == get_legal_moves(game)
            IN  IF legal_moves_ = <<>>
                THEN Completed(utility(game, Self), NullMove, Emit(st2, "utility", call, 0))
                ELSE alphabeta_loop(game, depth, alpha, beta, maximizing_player,
                                    legal_moves_, 1,
                                    IF maximizing_player THEN NegInf ELSE PosInf,
                                    None, call, st2)

\* The search get_move starts: both are called with maximizing_player=True
\* and alphabeta with its default window.
Search(m, game, depth, st) ==
    IF m = "minimax" THEN minimax(game, depth, TRUE, st)
    ELSE alphabeta(game, depth, NegInf, PosInf, TRUE, st)

(***************************************************************************)
(* State.                                                                  *)
(***************************************************************************)
VARIABLES
    game,          \* the position given to get_move / to the search
    legal_moves,   \* get_move's legal_moves argument
    iterative,     \* self.iterative
    method,        \* self.method
    search_depth,  \* self.search_depth
    maximizing,    \* maximizing_player of a direct minimax/alphabeta call
    clock,         \* the time source: what time_left() reports next
    calls,         \* minimax/alphabeta calls made so far
    trace,         \* queries made so far to the time source, Board and Evaluator
    pc,            \* get_move's position
    depth,         \* the loop variable of iterative deepening
    move,          \* get_move's local variable move
    ret,           \* the value get_move returned
    exception,     \* the exception that left get_move, if any
    caught,        \* times the except Timeout clause ran
    started,       \* depths of the searches get_move started, in order
    completed,     \* results of the searches that returned, in order
    mm,            \* result of the direct minimax call
    ab,            \* result of the direct alphabeta call
    done           \* direct calls made

vars == <<game, legal_moves, iterative, method, search_depth, maximizing, clock,
          calls, trace, pc, depth, move, ret, exception, caught, started,
          completed, mm, ab, done>>

config == <<game, legal_moves, iterative, method, search_depth, maximizing>>

Machine == [clock |-> clock, calls |-> calls, trace |-> trace]

NoResult == Completed(0, None, [clock |-> 0, calls |-> 0, trace |-> <<>>])

(***************************************************************************)
(* CustomPlayer.get_move                                                   *)
(***************************************************************************)
Init ==
    /\ \E t \in TreesUpTo(MaxNodes) : game = [node |-> t, active |-> Self]
    /\ legal_moves = get_legal_moves(game)
    /\ iterative \in BOOLEAN
    /\ method \in Methods
    /\ search_depth \in (IF iterative THEN {3} ELSE 1..MaxDepth)
    /\ maximizing = TRUE
    /\ clock \in (TIMER_THRESHOLD - 1)..(TIMER_THRESHOLD + MaxBudget)
    /\ calls = 0
    /\ trace = <<>>
    /\ pc = "call"
    /\ depth = 0
    /\ move = None
    /\ ret = None
    /\ exception = "none"
    /\ caught = 0
    /\ started = <<>>
    /\ completed = <<>>
    /\ mm = NoResult
    /\ ab = NoResult
    /\ done = {}

\* A slip: no test of legal_moves before the search.
GetMoveUnchecked ==
    /\ pc = "call"
    /\ ret' = ret
    /\ pc' = "try"
    /\ move' = None
    /\ UNCHANGED <<config, clock, calls, trace, depth, exception, caught,
                   started, completed, mm, ab, done>>

\* Entry: returns (-1, -1) at once when there are no legal moves.
GetMove ==
    /\ pc = "call"
    /\ IF legal_moves = <<>>
       THEN /\ ret' = NullMove
            /\ pc' = "returned"
       ELSE /\ ret' = ret
            /\ pc' = "try"
    /\ move' = None
    /\ UNCHANGED <<config, clock, calls, trace, depth, exception, caught,
                   started, completed, mm, ab, done>>

\* A slip: the handler catches every exception, the ValueError too.
UnknownMethodSwallowed ==
    /\ pc = "try"
    /\ method \notin {"minimax", "alphabeta"}
    /\ caught' = caught + 1
    /\ pc' = "return"
    /\ UNCHANGED <<config, clock, calls, trace, depth, move, ret, exception,
                   started, completed, mm, ab, done>>

\* The else branches: raise ValueError, which except Timeout does not catch.
UnknownMethod ==
    /\ pc = "try"
    /\ method \notin {"minimax", "alphabeta"}
    /\ exception' = "ValueError"
    /\ pc' = "raised"
    /\ UNCHANGED <<config, clock, calls, trace, depth, move, ret, caught,
                   started, completed, mm, ab, done>>

\* A slip: the best move of the cancelled search's root layer is stored
\* before the Timeout leaves the loop.
RunSearchKeepsPartial(d) ==
    LET r == Search(method, game, d, Machine)
    IN  /\ started' = Append(started, d)
        /\ clock' = r.st.clock
        /\ calls' = r.st.calls
        /\ trace' = r.st.trace
        /\ IF r.raised
           THEN /\ caught' = caught + 1
                /\ pc' = "return"
                /\ move' = IF r.st.calls > calls + 1 THEN legal_moves[1] ELSE move
                /\ UNCHANGED <<completed, depth>>
           ELSE /\ move' = r.move
                /\ completed' = Append(completed,
                                       [depth |-> d, score |-> r.score, move |-> r.move])
                /\ IF iterative
                   THEN pc' = "loop" /\ depth' = d + 1
                   ELSE pc' = "return" /\ depth' = depth
                /\ caught' = caught

\* One search of get_move at depth d: the assignment to move happens only
\* when the search returns; a Timeout is caught and leaves the try block.
RunSearch(d) ==
    LET r == Search(method, game, d, Machine)
    IN  /\ started' = Append(started, d)
        /\ clock' = r.st.clock
        /\ calls' = r.st.calls
        /\ trace' = r.st.trace
        /\ IF r.raised
           THEN /\ caught' = caught + 1
                /\ pc' = "return"
                /\ UNCHANGED <<move, completed, depth>>
           ELSE /\ move' = r.move
                /\ completed' = Append(completed,
                                       [depth |-> d, score |-> r.score, move |-> r.move])
                /\ IF iterative
                   THEN pc' = "loop" /\ depth' = d + 1
                   ELSE pc' = "return" /\ depth' = depth
                /\ caught' = caught

\* iterative: for depth in range(sys.maxsize).
StartIterative ==
    /\ pc = "try"
    /\ iterative
    /\ method \in {"minimax", "alphabeta"}
    /\ depth' = 0
    /\ pc' = "loop"
    /\ UNCHANGED <<config, clock, calls, trace, move, ret, exception, caught,
                   started, completed, mm, ab, done>>

IterativeSearch ==
    /\ pc = "loop"
    /\ RunSearch(depth)
    /\ UNCHANGED <<config, ret, exception, mm, ab, done>>

\* not iterative: one search at self.search_depth.
FixedSearch ==
    /\ pc = "try"
    /\ ~iterative
    /\ method \in {"minimax", "alphabeta"}
    /\ RunSearch(search_depth)
    /\ UNCHANGED <<config, ret, exception, mm, ab, done>>

\* return move
Return ==
    /\ pc = "return"
    /\ ret' = move
    /\ pc' = "returned"
    /\ UNCHANGED <<config, clock, calls, trace, depth, move, exception, caught,
                   started, completed, mm, ab, done>>

Next ==
    \/ GetMove
    \/ UnknownMethod
    \/ StartIterative
    \/ IterativeSearch
    \/ FixedSearch
    \/ Return

Spec == Init /\ [][Next]_vars

(***************************************************************************)
(* minimax and alphabeta called directly on a position, with a time source *)
(* that stays above the threshold for the whole search.                    *)
(***************************************************************************)
InitSearch ==
    /\ maximizing \in BOOLEAN
    /\ \E t \in TreesUpTo(MaxSearchNodes) :
          game = [node |-> t, active |-> IF maximizing THEN Self ELSE Opponent]
    /\ legal_moves = get_legal_moves(game)
    /\ iterative = FALSE
    /\ method = "minimax"
    /\ search_depth \in 0..MaxDepth
    /\ clock = TIMER_THRESHOLD + NodeCount(game.node)
    /\ calls = 0
    /\ trace = <<>>
    /\ pc = "search"
    /\ depth = 0
    /\ move = None
    /\ ret = None
    /\ exception = "none"
    /\ caught = 0
    /\ started = <<>>
    /\ completed = <<>>
    /\ mm = NoResult
    /\ ab = NoResult
    /\ done = {}

CallMinimax ==
    /\ pc = "search"
    /\ "minimax" \notin done
    /\ mm' = minimax(game, search_depth, maximizing, Machine)
    /\ done' = done \cup {"minimax"}
    /\ UNCHANGED <<config, clock, calls, trace, pc, depth, move, ret, exception,
                   caught, started, completed, ab>>

CallAlphabeta ==
    /\ pc = "search"
    /\ "alphabeta" \notin done
    /\ ab' = alphabeta(game, search_depth, NegInf, PosInf, maximizing, Machine)
    /\ done' = done \cup {"alphabeta"}
    /\ UNCHANGED <<config, clock, calls, trace, pc, depth, move, ret, exception,
                   caught, started, completed, mm>>

NextSearch ==
    \/ CallMinimax
    \/ CallAlphabeta

SpecSearch == InitSearch /\ [][NextSearch]_vars

(***************************************************************************)
(* Reference values used by the properties.                                *)
(***************************************************************************)
\* A machine whose time source stays above the threshold for a whole search
\* of the position.
Ample(g) == [clock |-> TIMER_THRESHOLD + NodeCount(g.node), calls |-> 0, trace |-> <<>>]

\* The score an exhaustive search gives the k-th move of a layer.
SubtreeScore(g, k, d, maxi) ==
    minimax(forecast_move(g, Cell(k)), d - 1, ~maxi, Ample(g)).score

SubtreeScores(g, d, maxi) ==
    [k \in 1..Len(g.node.kids) |-> SubtreeScore(g, k, d, maxi)]

\* The best score of a layer: maximum or minimum of its moves' scores.
LayerBest(scores, maxi) ==
    CHOOSE b \in {scores[k] : k \in DOMAIN scores} :
        \A k \in DOMAIN scores : IF maxi THEN scores[k] <= b ELSE scores[k] >= b

\* The first move, in enumeration order, whose score is the layer's best.
FirstBest(scores, maxi) ==
    Cell(CHOOSE k \in DOMAIN scores :
            /\ scores[k] = LayerBest(scores, maxi)
            /\ \A j \in 1..(k - 1) : scores[j] # LayerBest(scores, maxi))

BothDone == done = {"minimax", "alphabeta"}

(***************************************************************************)
(* C1: at the root window and on a maximizing root, alphabeta returns the  *)
(* score minimax returns for the same position and depth; the two moves    *)
(* differ only if at least two moves have the best score.                  *)
(***************************************************************************)
AlphabetaScoreEqualsMinimax ==
    (BothDone /\ maximizing) =>
        /\ ~mm.raised /\ ~ab.raised
        /\ ab.score = mm.score
        /\ (ab.move # mm.move =>
               Cardinality({k \in DOMAIN legal_moves :
                   SubtreeScore(game, k, search_depth, TRUE) = mm.score}) >= 2)

\* A search in which alphabeta cut a branch off that minimax explored.
AlphabetaPruned ==
    /\ BothDone /\ maximizing
    /\ search_depth >= 2
    /\ ab.st.calls < mm.st.calls
    /\ mm.score \in Heuristics

(***************************************************************************)
(* C5: with at least one legal move and depth >= 1, the move minimax       *)
(* returns, and the move alphabeta returns at the root window, is the      *)
(* first move in enumeration order whose subtree score is the best score   *)
(* of the layer, also when that score is -infinity or +infinity.           *)
(***************************************************************************)
FirstBestMoveReturned ==
    (BothDone /\ search_depth >= 1 /\ legal_moves # <<>>) =>
        LET first == FirstBest(SubtreeScores(game, search_depth, maximizing), maximizing)
        IN  mm.move = first /\ ab.move = first

(***************************************************************************)
(* C9: a position of the searching player with exactly two legal moves,    *)
(* one (M1) to a position where the opponent has no move and one (M2) to   *)
(* a non-terminal position with a finite Evaluator score.                  *)
(***************************************************************************)
WinInOne(k) == game.node.kids[k].kids = <<>>

TwoMovesOneWins ==
    /\ maximizing
    /\ Len(legal_moves) = 2
    /\ \E k \in 1..2 : WinInOne(k) /\ ~WinInOne(3 - k)
    /\ \A k \in 1..2 : ~WinInOne(k) =>
           custom_score(forecast_move(game, Cell(k)), Self) \in Heuristics

M1 == Cell(CHOOSE k \in 1..2 : WinInOne(k))
M2 == Cell(CHOOSE k \in 1..2 : ~WinInOne(k))

\* C9 as claimed: for every depth >= 1 both searches return +infinity and M1.
WinningMoveSelected ==
    (BothDone /\ TwoMovesOneWins /\ search_depth >= 1) =>
        /\ mm.score = PosInf /\ mm.move = M1
        /\ ab.score = PosInf /\ ab.move = M1

\* C9 as amended: both searches return +infinity; they return M1 at depths 1
\* and 2 and whenever M1 is enumerated first; at depth >= 3 with M2
\* enumerated first they return M2 exactly when M2's subtree is itself a
\* forced win within the depth (score +infinity), and M1 otherwise.
WinningScoreFirstWinningMove ==
    (BothDone /\ TwoMovesOneWins /\ search_depth >= 1) =>
        LET m2wins == SubtreeScore(game, M2[2], search_depth, TRUE) = PosInf
            expected == IF M2 = Cell(1) /\ m2wins THEN M2 ELSE M1
        IN  /\ mm.score = PosInf /\ ab.score = PosInf
            /\ mm.move = expected /\ ab.move = expected
            /\ (search_depth <= 2 \/ M1 = Cell(1)) => expected = M1

\* Both searches ran on such a position with M2 enumerated first, to a depth
\* at which M2 is a forced win as well.
TwoMovesOneWinsSearched ==
    /\ BothDone /\ TwoMovesOneWins
    /\ search_depth >= 3
    /\ M2 = Cell(1)
    /\ mm.move = M2

(***************************************************************************)
(* Properties of get_move.                                                 *)
(***************************************************************************)
KnownMethod == method \in {"minimax", "alphabeta"}

Last(seq) == seq[Len(seq)]

\* The last search get_move started was cancelled.
Cancelled == trace # <<>> /\ Last(trace).ev = "Timeout"

(***************************************************************************)
(* C2: whenever get_move returns after a search, the returned move is the  *)
(* move of a search that ran to completion, namely of the last search      *)
(* that completed before the cancellation.                                 *)
(***************************************************************************)
ReturnsLastCompletedMove ==
    (pc = "returned" /\ legal_moves # <<>> /\ KnownMethod) =>
        /\ completed # <<>>
        /\ ret = Last(completed).move

\* What the code does guarantee: a cancelled search leaves move as it was.
CancelledSearchKeepsMove ==
    [][(caught' = caught + 1) => move' = move]_vars

(***************************************************************************)
(* C3: with legal moves and a known method, a get_move whose first search  *)
(* is cancelled before it completes returns the (-1, -1) sentinel or the   *)
(* first legal move, never an unset value.                                 *)
(***************************************************************************)
PlaceholderIsValidMove ==
    (pc = "returned" /\ legal_moves # <<>> /\ KnownMethod /\ completed = <<>>) =>
        /\ exception = "none"
        /\ ret \in {NullMove, legal_moves[1]}

(***************************************************************************)
(* C4: iterative deepening searches at depths 1, 2, 3, ... in this order   *)
(* and never at depth 0; so once a depth has completed on a position with  *)
(* legal moves the stored move is a legal move, not the sentinel.          *)
(***************************************************************************)
DepthsStartAtOne ==
    iterative =>
        /\ \A i \in DOMAIN started : started[i] = i
        /\ (completed # <<>> /\ legal_moves # <<>>) =>
               move \in {legal_moves[k] : k \in DOMAIN legal_moves}

(***************************************************************************)
(* C6: with an empty legal_moves get_move returns (-1, -1) at once, in     *)
(* either mode and with any method name and time source: no search is      *)
(* started and the time source, the Board and the Evaluator are not        *)
(* queried.                                                                *)
(***************************************************************************)
NoMovesReturnsSentinel ==
    (legal_moves = <<>> /\ pc # "call") =>
        /\ pc = "returned"
        /\ ret = NullMove
        /\ exception = "none"
        /\ started = <<>>
        /\ calls = 0
        /\ trace = <<>>

NoMovesReturned ==
    /\ legal_moves = <<>>
    /\ pc = "returned"
    /\ method = "negamax"
    /\ iterative
    /\ clock < TIMER_THRESHOLD

(***************************************************************************)
(* C7: with legal moves and a method that is neither 'minimax' nor         *)
(* 'alphabeta', get_move ends with a ValueError in both modes: no search   *)
(* is started, the time source is not sampled, no move is returned and     *)
(* the Timeout handler does not run.                                       *)
(***************************************************************************)
UnknownMethodFails ==
    (legal_moves # <<>> /\ ~KnownMethod /\ pc \notin {"call", "try"}) =>
        /\ pc = "raised"
        /\ exception = "ValueError"
        /\ ret = None
        /\ caught = 0
        /\ started = <<>>
        /\ calls = 0
        /\ trace = <<>>

UnknownMethodRaised ==
    /\ legal_moves # <<>>
    /\ ~KnownMethod
    /\ pc = "raised"
    /\ iterative

(***************************************************************************)
(* C8: if iterative deepening completes the search at depth D >= 1 and is  *)
(* cancelled during the search at depth D + 1, get_move returns the move   *)
(* that a fixed-depth get_move with search_depth = D returns for the same  *)
(* method and position when nothing is cancelled.                          *)
(***************************************************************************)
FixedDepthMove(m, g, d) == Search(m, g, d, Ample(g)).move

IterativeMatchesFixedDepth ==
    (/\ iterative /\ KnownMethod /\ legal_moves # <<>>
     /\ pc = "returned"
     /\ completed # <<>>
     /\ Last(completed).depth >= 1
     /\ Cancelled /\ Last(started) = Last(completed).depth + 1) =>
        ret = FixedDepthMove(method, game, Last(completed).depth)

\* Depth 2 completed, depth 3 was cancelled after it had entered its loop,
\* and the moves of depth 1 and depth 2 differ.
IterativeCancelledAfterDepthTwo ==
    /\ iterative /\ method = "alphabeta"
    /\ pc = "returned"
    /\ Len(completed) = 3
    /\ completed[2].move # completed[3].move
    /\ Cancelled /\ Last(started) = 3
    /\ Last(trace).call > completed[3].depth + 1

(***************************************************************************)
(* C10: every minimax/alphabeta call samples the time source before it     *)
(* queries the Board or the Evaluator; a sample below the threshold is     *)
(* followed by the Timeout of that call and by nothing else: no frame      *)
(* goes on to a sibling move or makes a further query.  get_move catches   *)
(* the Timeout once, leaves without exception, and the cancelled depth is  *)
(* not searched again.                                                     *)
(***************************************************************************)
Queries == {"get_legal_moves", "forecast_move", "score", "utility"}

TimeoutUnwindsToGetMove ==
    /\ \A i \in DOMAIN trace :
          (\A j \in 1..(i - 1) : trace[j].call # trace[i].call) =>
              trace[i].ev = "time_left"
    /\ \A i \in DOMAIN trace :
          (trace[i].ev = "time_left" /\ trace[i].val < TIMER_THRESHOLD) =>
              /\ i + 1 = Len(trace)
              /\ trace[i + 1] = Event("Timeout", trace[i].call, 0)
    /\ \A i \in DOMAIN trace :
          trace[i].ev = "Timeout" =>
              /\ i > 1
              /\ trace[i - 1].ev = "time_left"
              /\ trace[i - 1].val < TIMER_THRESHOLD
    /\ Cancelled =>
          /\ caught = 1
          /\ pc \in {"return", "returned"}
          /\ exception = "none"
          /\ Len(completed) = Len(started) - 1
          /\ \A i, j \in DOMAIN started : started[i] = started[j] => i = j
    /\ ~Cancelled => caught = 0

\* A fixed-depth search cancelled two frames below its root layer, which
\* had a second move still to explore.
TimeoutBelowRootLayer ==
    /\ ~iterative /\ method = "minimax"
    /\ pc = "returned"
    /\ Cancelled
    /\ Len(legal_moves) >= 2
    /\ Last(trace).call = 3
    /\ \A i \in DOMAIN trace : trace[i].ev = "forecast_move" => trace[i].val = 1

=============================================================================
